---- MODULE Spec2Model ----
(***************************************************************************)
(* Model of the bitmap command-line tool (src/main.go).                    *)
(*                                                                         *)
(* A Go string is a sequence of one-character strings, so that             *)
(* strings.HasPrefix and strings.SplitN are computed on the characters.   *)
(* A file is the sequence of its bytes; the headers are decoded from the  *)
(* bytes little-endian, as binary.Read does.  Go slices are 0-based, TLA+ *)
(* sequences 1-based: args[i] of the source is args[i+1] here.            *)
(***************************************************************************)
EXTENDS Integers, Sequences, FiniteSets, TLC

(* ------------------------------ bounds -------------------------------- *)

\* longest list of arguments between the command and the trailing file names
MaxOpts == 2

\* largest width and height of a pixel buffer handed to the pixel codec
MaxDim == 2

(* ------------------------------ strings ------------------------------- *)

S_header == <<"h","e","a","d","e","r">>
S_apply == <<"a","p","p","l","y">>
S_resize == <<"r","e","s","i","z","e">>
S_in == <<"i","n",".","b","m","p">>
S_out == <<"o","u","t",".","b","m","p">>
S_dashdash == <<"-","-">>
S_mirror == <<"-","-","m","i","r","r","o","r">>
S_filter == <<"-","-","f","i","l","t","e","r">>
S_rotate == <<"-","-","r","o","t","a","t","e">>
S_crop == <<"-","-","c","r","o","p">>
S_horizontal == <<"h","o","r","i","z","o","n","t","a","l">>
S_diagonal == <<"d","i","a","g","o","n","a","l">>
S_negative == <<"n","e","g","a","t","i","v","e">>
S_90 == <<"9","0">>
S_180 == <<"1","8","0">>
S_crop_in == <<"0","-","0","-","1","-","1">>
S_crop_out == <<"3","-","0","-","2","-","1">>

\* name=value, as written on the command line
Flag(name, value) == name \o <<"=">> \o value

\* arguments that parseArgs accepts between the command and the file names
GoodArgs ==
    { Flag(S_mirror, S_horizontal), Flag(S_mirror, S_diagonal),
      Flag(S_filter, S_negative), Flag(S_rotate, S_90), Flag(S_rotate, S_180),
      Flag(S_crop, S_crop_in), Flag(S_crop, S_crop_out),
      Flag(S_dashdash \o <<"k">>, <<"a","=","b">>) }

\* arguments that parseArgs rejects there: no "=", or no "--" prefix
BadArgs == { <<"-","-","h","e","l","p">>, <<"-","h">>, <<"k","=","v">> }

Commands == { S_header, S_apply, S_resize }

\* strings.HasPrefix
HasPrefix(s, prefix) ==
    /\ Len(s) >= Len(prefix)
    /\ SubSeq(s, 1, Len(prefix)) = prefix

\* SplitN2 cutting at the last sep instead of the first
SplitN2_last(s, sep) ==
    IF \E i \in 1..Len(s) : s[i] = sep
    THEN LET i == CHOOSE k \in 1..Len(s) :
                     /\ s[k] = sep
                     /\ \A j \in (k+1)..Len(s) : s[j] # sep
         IN  <<SubSeq(s, 1, i-1), SubSeq(s, i+1, Len(s))>>
    ELSE <<s>>

\* strings.SplitN(s, sep, 2) for a one-character sep: cut at the first sep
SplitN2(s, sep) ==
    IF \E i \in 1..Len(s) : s[i] = sep
    THEN LET i == CHOOSE k \in 1..Len(s) :
                     /\ s[k] = sep
                     /\ \A j \in 1..(k-1) : s[j] # sep
         IN  <<SubSeq(s, 1, i-1), SubSeq(s, i+1, Len(s))>>
    ELSE <<s>>

(* ----------------------------- parseArgs ------------------------------ *)

\* the nil error
Nil == [kind |-> "nil", arg |-> <<>>]

Err(kind, arg) == [kind |-> kind, arg |-> arg]

\* type Option struct
Option(name, value) == [Name |-> name, Value |-> value]

ParseResult(command, filename, outputFilename, orderedOptions, err) ==
    [command |-> command, filename |-> filename, outputFilename |-> outputFilename,
     orderedOptions |-> orderedOptions, err |-> err]

ParseError(err) == ParseResult(<<>>, <<>>, <<>>, <<>>, err)

\* the loop of parseArgs, from (1-based) position i with the options so far
RECURSIVE ParseOptions(_, _, _)
ParseOptions(args, i, orderedOptions) ==
    IF i > Len(args) - 2
    THEN ParseResult(args[1], args[Len(args)-1], args[Len(args)], orderedOptions, Nil)
    ELSE IF HasPrefix(args[i], S_dashdash)
         THEN LET parts == SplitN2(args[i], "=")
              IN  IF Len(parts) # 2
                  THEN ParseError(Err("invalid option format", args[i]))
                  ELSE ParseOptions(args, i + 1,
                                    Append(orderedOptions, Option(parts[1], parts[2])))
         ELSE ParseError(Err("unexpected argument", args[i]))

parseArgs(args) ==
    IF Len(args) < 2
    THEN ParseError(Err("invalid number of arguments", <<>>))
    ELSE IF args[1] = S_header
         THEN IF Len(args) # 2
              THEN ParseError(Err("usage: header", <<>>))
              ELSE ParseResult(args[1], args[2], <<>>, <<>>, Nil)
         ELSE IF args[1] = S_apply
              THEN IF Len(args) < 4
                   THEN ParseError(Err("usage: apply", <<>>))
                   ELSE ParseOptions(args, 2, <<>>)
              ELSE ParseError(Err("unknown command", args[1]))

(* ------------------------------ headers ------------------------------- *)

\* bytes of the file header: type BMPHeader struct
BMPHeaderSize == 14

\* bytes of the info header: type DIBHeader struct
DIBHeaderSize == 40

\* the bytes "BM"
MagicBM == <<66, 77>>

\* binary.LittleEndian, unsigned, n bytes at (0-based) offset off
RECURSIVE LittleEndian(_, _, _)
LittleEndian(bytes, off, n) ==
    IF n = 0 THEN 0
    ELSE bytes[off + 1] + 256 * LittleEndian(bytes, off + 1, n - 1)

Uint16(bytes, off) == LittleEndian(bytes, off, 2)

\* uint32 (the files of the model hold no value of 2^31 or more in such a field)
Uint32(bytes, off) == LittleEndian(bytes, off, 4)

\* int32: two's complement of the 32 bits, the sign in the last byte
Int32(bytes, off) ==
    LET top == bytes[off + 4]
    IN  LittleEndian(bytes, off, 3) + 16777216 * (IF top >= 128 THEN top - 256 ELSE top)

\* binary.Read into a BMPHeader, from the 14 bytes at the start of the file
DecodeBMPHeader(bytes) ==
    [FileType |-> SubSeq(bytes, 1, 2),
     FileSize |-> Uint32(bytes, 2),
     Reserved |-> Uint32(bytes, 6),
     OffsetData |-> Uint32(bytes, 10)]

\* binary.Read into a DIBHeader, from the 40 bytes that follow
DecodeDIBHeader(bytes) ==
    [DibHeaderSize |-> Uint32(bytes, 14),
     Width |-> Int32(bytes, 18),
     Height |-> Int32(bytes, 22),
     Planes |-> Uint16(bytes, 26),
     BitCount |-> Uint16(bytes, 28),
     Compression |-> Uint32(bytes, 30),
     ImageSize |-> Uint32(bytes, 34),
     XPixelsPerM |-> Int32(bytes, 38),
     YPixelsPerM |-> Int32(bytes, 42),
     ColorsUsed |-> Uint32(bytes, 46),
     ColorsImp |-> Uint32(bytes, 50)]

\* the headers readHeaders returns beside an error (nil pointers, never read)
NoBMPHeader == [FileType |-> <<0, 0>>, FileSize |-> 0, Reserved |-> 0, OffsetData |-> 0]

NoDIBHeader ==
    [DibHeaderSize |-> 0, Width |-> 0, Height |-> 0, Planes |-> 0, BitCount |-> 0,
     Compression |-> 0, ImageSize |-> 0, XPixelsPerM |-> 0, YPixelsPerM |-> 0,
     ColorsUsed |-> 0, ColorsImp |-> 0]

HeadersResult(bmp, dib, err) == [bmp |-> bmp, dib |-> dib, err |-> err]

\* readHeaders comparing only the first byte of the magic
readHeaders_firstByte(fs, filename) ==
    IF filename \notin DOMAIN fs
    THEN HeadersResult(NoBMPHeader, NoDIBHeader, Err("error opening file", filename))
    ELSE LET bytes == fs[filename]
         IN  IF Len(bytes) < BMPHeaderSize
             THEN HeadersResult(NoBMPHeader, NoDIBHeader, Err("error reading BMP header", <<>>))
             ELSE IF DecodeBMPHeader(bytes).FileType[1] # MagicBM[1]
                  THEN HeadersResult(NoBMPHeader, NoDIBHeader, Err("error: not a valid BMP file", <<>>))
                  ELSE IF Len(bytes) < BMPHeaderSize + DIBHeaderSize
                       THEN HeadersResult(NoBMPHeader, NoDIBHeader, Err("error reading DIB header", <<>>))
                       ELSE HeadersResult(DecodeBMPHeader(bytes), DecodeDIBHeader(bytes), Nil)

\* readHeaders without the check of the magic
readHeaders_noMagic(fs, filename) ==
    IF filename \notin DOMAIN fs
    THEN HeadersResult(NoBMPHeader, NoDIBHeader, Err("error opening file", filename))
    ELSE LET bytes == fs[filename]
         IN  IF Len(bytes) < BMPHeaderSize + DIBHeaderSize
             THEN HeadersResult(NoBMPHeader, NoDIBHeader, Err("error reading DIB header", <<>>))
             ELSE HeadersResult(DecodeBMPHeader(bytes), DecodeDIBHeader(bytes), Nil)

\* readHeaders: fs is the file system, a function from the names of the files
\* that exist to their bytes
readHeaders(fs, filename) ==
    IF filename \notin DOMAIN fs
    THEN HeadersResult(NoBMPHeader, NoDIBHeader, Err("error opening file", filename))
    ELSE LET bytes == fs[filename]
         IN  IF Len(bytes) < BMPHeaderSize
             THEN HeadersResult(NoBMPHeader, NoDIBHeader, Err("error reading BMP header", <<>>))
             ELSE IF DecodeBMPHeader(bytes).FileType # MagicBM
                  THEN HeadersResult(NoBMPHeader, NoDIBHeader, Err("error: not a valid BMP file", <<>>))
                  ELSE IF Len(bytes) < BMPHeaderSize + DIBHeaderSize
                       THEN HeadersResult(NoBMPHeader, NoDIBHeader, Err("error reading DIB header", <<>>))
                       ELSE HeadersResult(DecodeBMPHeader(bytes), DecodeDIBHeader(bytes), Nil)

(* --------------------- pixel codec and transforms --------------------- *)

PixelsResult(pixels, err) == [pixels |-> pixels, err |-> err]

\* readPixels: returns nil, nil; the file is not opened
readPixels(fs, filename, bmpHeader, dibHeader) == PixelsResult(<<>>, Nil)

WriteResult(fs, err) == [fs |-> fs, err |-> err]

\* writePixels: returns nil; no file is created or changed
writePixels(fs, filename, bmpHeader, dibHeader, pixels) == WriteResult(fs, Nil)

applyMirror(pixels, width, height, mode) == pixels

applyFilter(pixels, width, height, filterType) == pixels

applyRotate(pixels, width, height, angle) == pixels

applyCrop(pixels, width, height, offsetX, offsetY, cropWidth, cropHeight) == pixels

(* ------------------------------- inputs ------------------------------- *)

\* n bytes of v, little-endian (a negative v in two's complement: % and \div
\* round towards minus infinity)
RECURSIVE Bytes(_, _)
Bytes(v, n) ==
    IF n = 0 THEN <<>>
    ELSE <<v % 256>> \o Bytes(v \div 256, n - 1)

RECURSIVE Repeat(_, _)
Repeat(b, n) == IF n <= 0 THEN <<>> ELSE <<b>> \o Repeat(b, n - 1)

\* the bytes of a BMP file with the given header fields, followed by data
FileBytes(magic, fileSize, dibSize, width, height, planes, bitCount, compression, imageSize, data) ==
    magic \o Bytes(fileSize, 4) \o Bytes(0, 4) \o Bytes(54, 4)
    \o Bytes(dibSize, 4) \o Bytes(width, 4) \o Bytes(height, 4)
    \o Bytes(planes, 2) \o Bytes(bitCount, 2) \o Bytes(compression, 4)
    \o Bytes(imageSize, 4) \o Bytes(2835, 4) \o Bytes(2835, 4)
    \o Bytes(0, 4) \o Bytes(0, 4) \o data

\* a 4x2 all-white 24-bit image, size fields consistent
Valid4x2 == FileBytes(MagicBM, 78, 40, 4, 2, 1, 24, 0, 24, Repeat(255, 24))

\* a 2x3 24-bit image whose image size field is 0 and whose file size is stale
Stale2x3 == FileBytes(MagicBM, 60, 40, 2, 3, 1, 24, 0, 0, Repeat(255, 24))

\* the files the commands are run on
Files ==
    { Valid4x2, Stale2x3,
      FileBytes(<<80, 78>>, 78, 40, 4, 2, 1, 24, 0, 24, Repeat(255, 24)),
      FileBytes(MagicBM, 78, 40, 4, -2, 1, 24, 0, 24, Repeat(255, 24)),
      FileBytes(MagicBM, 86, 40, 4, 2, 1, 32, 0, 32, Repeat(255, 32)),
      SubSeq(Valid4x2, 1, 53), SubSeq(Valid4x2, 1, 13), <<>> }

\* every combination of supported and unsupported header fields, cut at every
\* length around the two header reads
HeaderFiles ==
    { SubSeq(FileBytes(magic, 78, dibSize, 4, height, planes, bitCount, compression, 24, Repeat(255, 24)), 1, size) :
        magic \in {MagicBM, <<80, 78>>, <<66, 0>>}, dibSize \in {40, 12}, height \in {2, -2},
        planes \in {1, 3}, bitCount \in {24, 32}, compression \in {0, 1},
        size \in {0, 1, 13, 14, 53, 54, 78} }

\* the file system: in.bmp holds the file, or no file exists
FileSystems(files) == { <<>> } \cup { S_in :> f : f \in files }

\* sequences over S of length at most n
RECURSIVE SeqUpTo(_, _)
SeqUpTo(S, n) ==
    IF n = 0 THEN { <<>> }
    ELSE LET shorter == SeqUpTo(S, n - 1)
         IN  shorter \cup { Append(q, x) : q \in shorter, x \in S }

\* os.Args[1:]: nothing, or a command, up to MaxOpts arguments and up to two file names
ArgLists ==
    { <<>> } \cup
    { <<c>> \o middle \o tail :
        c \in Commands, middle \in SeqUpTo(GoodArgs \cup BadArgs, MaxOpts),
        tail \in { <<>>, <<S_in>>, <<S_in, S_out>> } }

(* ------------------------------- state -------------------------------- *)

VARIABLES
    args,            \* os.Args[1:]
    fs,              \* the file system
    pc,              \* the position of main
    command, filename, outputFilename, orderedOptions,
    err,             \* the err of main
    bmpHeader, dibHeader,
    pixels,
    idx,             \* the (1-based) position of the loop over orderedOptions
    steps,           \* history: the transform call of each iteration of the loop
    writes,          \* history: the calls of writePixels
    stdout, stderr,
    exitStatus

vars == <<args, fs, pc, command, filename, outputFilename, orderedOptions, err,
          bmpHeader, dibHeader, pixels, idx, steps, writes, stdout, stderr, exitStatus>>

Line(text, values) == [text |-> text, values |-> values]

\* the state of the process when main is entered
Start(a, f) ==
    /\ args = a
    /\ fs = f
    /\ pc = "main"
    /\ command = <<>>
    /\ filename = <<>>
    /\ outputFilename = <<>>
    /\ orderedOptions = <<>>
    /\ err = Nil
    /\ bmpHeader = NoBMPHeader
    /\ dibHeader = NoDIBHeader
    /\ pixels = <<>>
    /\ idx = 1
    /\ steps = <<>>
    /\ writes = <<>>
    /\ stdout = <<>>
    /\ stderr = <<>>
    /\ exitStatus = 0

Init == \E a \in ArgLists, f \in FileSystems(Files) : Start(a, f)

\* os.Exit(status), or the return of main with status 0
Exit(status) ==
    /\ pc' = "exit"
    /\ exitStatus' = status

(* ------------------------------- main --------------------------------- *)

\* main, the argument check and parseArgs
Main_parseArgs ==
    /\ pc = "main"
    /\ IF Len(args) + 1 < 2
       THEN /\ stdout' = Append(stdout, Line("general help", <<>>))
            /\ Exit(1)
            /\ UNCHANGED <<command, filename, outputFilename, orderedOptions, err>>
       ELSE LET r == parseArgs(args)
            IN  /\ command' = r.command
                /\ err' = r.err
                /\ filename' = r.filename
                /\ outputFilename' = r.outputFilename
                /\ orderedOptions' = r.orderedOptions
                /\ IF r.err # Nil
                   THEN /\ stdout' = Append(stdout, Line("Error:", <<r.err>>))
                        /\ Exit(1)
                   ELSE /\ pc' = "readHeaders"
                        /\ UNCHANGED <<stdout, exitStatus>>
    /\ UNCHANGED <<args, fs, bmpHeader, dibHeader, pixels, idx, steps, writes, stderr>>

\* main, readHeaders
Main_readHeaders ==
    /\ pc = "readHeaders"
    /\ LET r == readHeaders(fs, filename)
       IN  /\ stdout' = Append(stdout, Line("Opening file: <", <<filename>>))
           /\ bmpHeader' = r.bmp
           /\ dibHeader' = r.dib
           /\ err' = r.err
           /\ IF r.err # Nil
              THEN /\ stderr' = Append(stderr, Line("Error:", <<r.err>>))
                   /\ Exit(1)
              ELSE /\ pc' = "switch"
                   /\ UNCHANGED <<stderr, exitStatus>>
    /\ UNCHANGED <<args, fs, command, filename, outputFilename, orderedOptions,
                   pixels, idx, steps, writes>>

\* printHeader
printHeader(bmp, dib) ==
    Line("header", <<bmp.FileType, bmp.FileSize, bmp.OffsetData, dib.DibHeaderSize,
                     dib.Width, dib.Height, dib.BitCount, dib.ImageSize>>)

\* main, the switch on the command: printHeader, or readPixels before the loop
\* (the err of readPixels is a variable of the case, not the err of main)
Main_switch ==
    /\ pc = "switch"
    /\ CASE command = S_header ->
              /\ stdout' = Append(stdout, printHeader(bmpHeader, dibHeader))
              /\ Exit(0)
              /\ UNCHANGED <<pixels, idx>>
         [] command = S_apply ->
              LET r == readPixels(fs, filename, bmpHeader, dibHeader)
              IN  /\ pixels' = r.pixels
                  /\ idx' = 1
                  /\ IF r.err # Nil
                     THEN /\ stdout' = Append(stdout, Line("Error:", <<r.err>>))
                          /\ Exit(1)
                     ELSE /\ pc' = "options"
                          /\ UNCHANGED <<stdout, exitStatus>>
         [] OTHER ->
              /\ stdout' = Append(stdout, Line("general help", <<>>))
              /\ Exit(1)
              /\ UNCHANGED <<pixels, idx>>
    /\ UNCHANGED <<args, fs, command, filename, outputFilename, orderedOptions, err,
                   bmpHeader, dibHeader, steps, writes, stderr>>

Step(opt, fn, width, height, arguments) ==
    [opt |-> opt, fn |-> fn, width |-> width, height |-> height, arguments |-> arguments]

\* main, one iteration of the loop over orderedOptions
Main_applyOption ==
    /\ pc = "options"
    /\ idx <= Len(orderedOptions)
    /\ LET opt == orderedOptions[idx]
           width == dibHeader.Width
           height == dibHeader.Height
       IN  CASE opt.Name = S_mirror ->
                  /\ pixels' = applyMirror(pixels, width, height, opt.Value)
                  /\ steps' = Append(steps, Step(opt, "applyMirror", width, height, <<opt.Value>>))
             [] opt.Name = S_filter ->
                  /\ pixels' = applyFilter(pixels, width, height, opt.Value)
                  /\ steps' = Append(steps, Step(opt, "applyFilter", width, height, <<opt.Value>>))
             [] opt.Name = S_rotate ->
                  LET angle == 0
                  IN  /\ pixels' = applyRotate(pixels, width, height, angle)
                      /\ steps' = Append(steps, Step(opt, "applyRotate", width, height, <<angle>>))
             [] opt.Name = S_crop ->
                  /\ pixels' = applyCrop(pixels, width, height, 0, 0, 100, 100)
                  /\ steps' = Append(steps, Step(opt, "applyCrop", width, height, <<0, 0, 100, 100>>))
             [] OTHER ->
                  /\ pixels' = pixels
                  /\ steps' = Append(steps, Step(opt, "none", width, height, <<>>))
    /\ idx' = idx + 1
    /\ UNCHANGED <<args, fs, pc, command, filename, outputFilename, orderedOptions, err,
                   bmpHeader, dibHeader, writes, stdout, stderr, exitStatus>>

WriteCall(name, bmp, dib, px) ==
    [filename |-> name, bmpHeader |-> bmp, dibHeader |-> dib, pixels |-> px]

\* main, writePixels after the loop
Main_writePixels ==
    /\ pc = "options"
    /\ idx > Len(orderedOptions)
    /\ LET r == writePixels(fs, outputFilename, bmpHeader, dibHeader, pixels)
       IN  /\ fs' = r.fs
           /\ writes' = Append(writes, WriteCall(outputFilename, bmpHeader, dibHeader, pixels))
           /\ err' = r.err
           /\ IF r.err # Nil
              THEN /\ stderr' = Append(stderr, Line("Error:", <<r.err>>))
                   /\ Exit(1)
              ELSE /\ Exit(0)
                   /\ UNCHANGED stderr
    /\ UNCHANGED <<args, command, filename, outputFilename, orderedOptions,
                   bmpHeader, dibHeader, pixels, idx, steps, stdout>>

Next ==
    \/ Main_parseArgs
    \/ Main_readHeaders
    \/ Main_switch
    \/ Main_applyOption
    \/ Main_writePixels

Spec == Init /\ [][Next]_vars

\* the same program, run on every combination of header fields
HeaderInit ==
    \E a \in { <<S_header, S_in>>, <<S_apply, Flag(S_filter, S_negative), S_in, S_out>> },
       f \in FileSystems(HeaderFiles) : Start(a, f)

HeaderSpec == HeaderInit /\ [][Next]_vars

(* ---------------------------- pixel codec ----------------------------- *)

\* type Pixel struct
Pixel(blue, green, red) == [Blue |-> blue, Green |-> green, Red |-> red]

\* white, black and a pixel whose three channels differ
Pixels == { Pixel(255, 255, 255), Pixel(0, 0, 0), Pixel(1, 2, 3) }

\* the row-major pixel buffers of every width and height up to MaxDim
Buffers ==
    UNION { { [width |-> w, height |-> h, pixels |-> p] : p \in [1..(w * h) -> Pixels] } :
              w \in 1..MaxDim, h \in 1..MaxDim }

\* a buffer about to be written to out.bmp, no file existing yet
CodecInit ==
    \E b \in Buffers :
        /\ args = <<>>
        /\ fs = <<>>
        /\ pc = "writePixels"
        /\ command = S_apply
        /\ filename = S_in
        /\ outputFilename = S_out
        /\ orderedOptions = <<>>
        /\ err = Nil
        /\ bmpHeader = DecodeBMPHeader(Valid4x2)
        /\ dibHeader = [DecodeDIBHeader(Valid4x2) EXCEPT !.Width = b.width, !.Height = b.height]
        /\ pixels = b.pixels
        /\ idx = 1
        /\ steps = <<>>
        /\ writes = <<>>
        /\ stdout = <<>>
        /\ stderr = <<>>
        /\ exitStatus = 0

\* the buffer is encoded by writePixels
Codec_writePixels ==
    /\ pc = "writePixels"
    /\ LET r == writePixels(fs, outputFilename, bmpHeader, dibHeader, pixels)
       IN  /\ fs' = r.fs
           /\ writes' = Append(writes, WriteCall(outputFilename, bmpHeader, dibHeader, pixels))
           /\ err' = r.err
    /\ pc' = "readPixels"
    /\ UNCHANGED <<args, command, filename, outputFilename, orderedOptions, bmpHeader,
                   dibHeader, pixels, idx, steps, stdout, stderr, exitStatus>>

\* and what was written is decoded by readPixels
Codec_readPixels ==
    /\ pc = "readPixels"
    /\ LET r == readPixels(fs, outputFilename, bmpHeader, dibHeader)
       IN  /\ pixels' = r.pixels
           /\ err' = r.err
    /\ pc' = "decoded"
    /\ UNCHANGED <<args, fs, command, filename, outputFilename, orderedOptions, bmpHeader,
                   dibHeader, idx, steps, writes, stdout, stderr, exitStatus>>

CodecNext ==
    \/ Codec_writePixels
    \/ Codec_readPixels

CodecSpec == CodecInit /\ [][CodecNext]_vars

(* ------------------------------ properties ---------------------------- *)

\* readHeaders has been called and has returned
HeadersRead == Len(stdout) >= 1 /\ stdout[1].text = "Opening file: <"

\* the bytes of the input file, once parseArgs has named it
Input == fs[filename]

\* the first two bytes of a file are "BM"
HasMagic(bytes) == Len(bytes) >= 2 /\ SubSeq(bytes, 1, 2) = MagicBM

\* the header fields of a file have the values the format supports
Supported(bytes) ==
    /\ Len(bytes) >= 54
    /\ HasMagic(bytes)
    /\ DecodeDIBHeader(bytes).DibHeaderSize = 40
    /\ DecodeDIBHeader(bytes).BitCount = 24
    /\ DecodeDIBHeader(bytes).Compression = 0
    /\ DecodeDIBHeader(bytes).Planes = 1
    /\ DecodeDIBHeader(bytes).Height >= 0

C4_WrongMagicExits ==
    (filename \in DOMAIN fs /\ Len(Input) >= 2 /\ ~HasMagic(Input)) =>
        /\ pc \in {"readHeaders", "exit"}
        /\ HeadersRead => (err # Nil /\ pc = "exit" /\ exitStatus = 1)
        /\ \A i \in 1..Len(stdout) : stdout[i].text # "header"
        /\ steps = <<>>
        /\ writes = <<>>
        /\ DOMAIN fs = {filename}

\* the apply command has exited on a file with a wrong magic
C4_Witness ==
    /\ pc = "exit"
    /\ command = S_apply
    /\ filename \in DOMAIN fs
    /\ Len(Input) >= 54
    /\ ~HasMagic(Input)
    /\ exitStatus = 1

\* a string contains the character c
Contains(s, c) == \E i \in 1..Len(s) : s[i] = c

\* the arguments between the command and the two file names
Middle == SubSeq(args, 2, Len(args) - 2)

\* parseArgs has returned
ArgsParsed == pc # "main"

DimsAfter(opt, width, height) ==
    IF opt = Option(S_rotate, S_90) THEN <<height, width>>
    ELSE IF opt = Option(S_crop, S_crop_in) /\ width >= 1 /\ height >= 1 THEN <<1, 1>>
    ELSE <<width, height>>

\* an option whose transform is specified to fail on a width x height buffer:
\* the mirror mode "diagonal" (InvalidOption) and the crop 3-0-2-1 of an image
\* less than 5 wide (OutOfBounds)
MustFail(opt, width, height) ==
    \/ opt = Option(S_mirror, S_diagonal)
    \/ opt = Option(S_crop, S_crop_out) /\ width < 3 + 2

\* C1: the transforms are applied one by one in the order of the option list,
\* each once, and the width and height passed to a step are those of the buffer
\* the step before it produced: after a rotation by 90 or a crop the next step
\* receives the swapped or cropped dimensions, not those of the input header.
C1_DimensionsThreaded ==
    /\ Len(steps) <= Len(orderedOptions)
    /\ \A k \in 1..Len(steps) :
          /\ steps[k].opt = orderedOptions[k]
          /\ k > 1 => <<steps[k].width, steps[k].height>> =
                          DimsAfter(steps[k-1].opt, steps[k-1].width, steps[k-1].height)

\* C2: the first transform step that fails aborts the pipeline: no later option
\* is applied, writePixels is not called, and the process exits with status 1.
C2_FirstFailureAborts ==
    \A k \in 1..Len(steps) :
        MustFail(steps[k].opt, steps[k].width, steps[k].height) =>
            /\ Len(steps) = k
            /\ writes = <<>>
            /\ pc = "exit" => exitStatus = 1

\* C5: an apply invocation with an option value its transform does not
\* recognise, such as --mirror=diagonal, ends with an error and exit status 1.
C5_InvalidOptionExits ==
    (pc = "exit" /\ command = S_apply
       /\ \E i \in 1..Len(orderedOptions) : orderedOptions[i] = Option(S_mirror, S_diagonal)) =>
        /\ exitStatus = 1
        /\ err # Nil

\* C6: rotate normalises its argument to a clockwise angle; --rotate=90 on a
\* W x H input gives an H x W output holding the W*H pixels of the input,
\* --rotate=180 keeps the dimensions.
C6_RotateSwapsDimensions ==
    \A i \in 1..Len(writes) :
        /\ orderedOptions = <<Option(S_rotate, S_90)>> =>
              /\ steps[1].arguments = <<90>>
              /\ writes[i].dibHeader.Width = DecodeDIBHeader(Input).Height
              /\ writes[i].dibHeader.Height = DecodeDIBHeader(Input).Width
        /\ orderedOptions = <<Option(S_rotate, S_180)>> =>
              /\ steps[1].arguments = <<180>>
              /\ writes[i].dibHeader.Width = DecodeDIBHeader(Input).Width
              /\ writes[i].dibHeader.Height = DecodeDIBHeader(Input).Height

\* C7: the crop 0-0-1-1, inside the image, gives a buffer of exactly the
\* requested 1x1 holding the pixel at (0, 0); the crop 3-0-2-1 of a 4-wide
\* image fails with OutOfBounds and produces no buffer.
C7_CropToRequest ==
    /\ \A i \in 1..Len(writes) :
          orderedOptions = <<Option(S_crop, S_crop_in)>> =>
              /\ steps[1].arguments = <<0, 0, 1, 1>>
              /\ writes[i].dibHeader.Width = 1
              /\ writes[i].dibHeader.Height = 1
              /\ Len(writes[i].pixels) = 1
    /\ (orderedOptions = <<Option(S_crop, S_crop_out)>> /\ dibHeader.Width = 4) =>
          /\ writes = <<>>
          /\ pc = "exit" => exitStatus = 1

\* the bytes of a row of the given width in a file
RowBytes(width) == ((width * 3 + 3) \div 4) * 4

\* C8: after any successful apply pipeline the output file holds headers that
\* are consistent with the final buffer: ImageSize = rowBytes * height and
\* FileSize = 54 + rowBytes * height, whatever the input's headers held.
C8_SizesRecomputed ==
    (pc = "exit" /\ command = S_apply /\ exitStatus = 0) =>
        /\ outputFilename \in DOMAIN fs
        /\ Len(fs[outputFilename]) >= 54
        /\ LET bmp == DecodeBMPHeader(fs[outputFilename])
               dib == DecodeDIBHeader(fs[outputFilename])
           IN  /\ dib.ImageSize = RowBytes(dib.Width) * dib.Height
               /\ bmp.FileSize = 54 + RowBytes(dib.Width) * dib.Height
               /\ Len(fs[outputFilename]) = bmp.FileSize

\* C9: decoding with readPixels what writePixels encoded gives back the buffer,
\* for every buffer of positive width and height.
C9_CodecRoundTrip ==
    pc = "decoded" => pixels = writes[1].pixels

====
